---- MODULE Spec2Model ----
(***************************************************************************)
(* A model of the download pipeline of src/core/missav.py:                 *)
(*   - ProgressTracker (update_bytes, set_total_bytes, set_file_name,      *)
(*     _report_progress),                                                  *)
(*   - VideoDownloader.download and _execute_ffmpeg_download with its      *)
(*     read_stderr task,                                                   *)
(*   - VideoDownloader._select_quality_variant and                         *)
(*     VideoDownloader._get_url_based_filename,                            *)
(*   - the size estimation of VideoDownloader._process_m3u8_playlist with  *)
(*     _get_segment_size, and VideoDownloader._http_get,                   *)
(*   - progress_func of src/utils/progress.py, as the tasks a tracker      *)
(*     bound to a chat message creates.                                    *)
(* Time is counted in whole seconds.  The code between two awaits runs     *)
(* without interruption on the event loop, so each action below is one     *)
(* such stretch of code.                                                   *)
(***************************************************************************)
EXTENDS Integers, Sequences, FiniteSets, TLC

(* ------------------------------ bounds -------------------------------- *)

\* Lines the stderr reader reads before the end of the stream.
MaxLines == 2
\* time.time() when the tracker is constructed (seconds since the epoch).
StartTime == 100
\* Largest cumulative size a size= / bytes= line reports.
MaxReading == 120
\* Reports kept in the log of dispatches.
KeptReports == 3
\* Variants of a master manifest.
MaxVariants == 4
\* Largest BANDWIDTH attribute of a variant.
MaxBandwidth == 3
\* Segments of a media manifest.
MaxSegments == 15
\* Largest Content-Length of a HEAD response.
MaxProbeSize == 17
\* Largest retries of a downloader.
MaxRetries == 3
\* progress_func tasks of a tracker.
MaxTasks == 2
\* Latest time the progress_func tasks are followed to.
MaxClock == 108
\* Longest FloodWait, in seconds.
MaxFloodWait == 7
\* Characters of the last path component of a URL.
MaxPart == 5
\* Quality-button presses that run at the same time.
MaxJobs == 2
\* Evaluations started for one chat/message id.
MaxEvals == 2
\* max_size_bytes of split_video_by_size (2_097_152_000 in the program).
MaxSizeBytes == 10
\* Largest size of the file given to split_video_by_size.
MaxFileSize == 21
\* Calls of split_video_by_size followed, the first and its retries.
MaxCalls == 3

(* ------------------------- program constants -------------------------- *)

\* update_interval of the tracker.
UpdateInterval == 5
\* The time= estimate is used only after this many seconds.
EstimateAfter == 10
\* The time= estimate assumes a transfer of this many seconds.
EstimateSpan == 600

(* --------------------------- input domains ---------------------------- *)

\* What an await may take, in seconds.
Delays == {1, UpdateInterval}
\* Raw size estimates _process_m3u8_playlist may return.
RawEstimates == {0, 100}
\* Cumulative sizes parsed from size= and bytes= lines.
Readings == {MaxReading \div 2, MaxReading}
\* Seconds parsed from a time= marker.
TimeMarks == {0, 5, EstimateSpan}
\* Size of the output file when the tool exits; Missing: no file.
Missing == -1
FileSizes == {Missing, 0, MaxReading \div 2}
\* What the tool leaves when it exits: its exit status and its output file.
ExitOutcomes ==
    {[returncode |-> 0, output_file |-> f] : f \in FileSizes}
    \cup {[returncode |-> 1, output_file |-> MaxReading \div 2]}
\* A pattern that does not match the line.
NoMatch == -1
\* Requested qualities; Lower is str.lower() on them.
Qualities == {"lowest", "medium", "high", "HIGH", "best"}
\* The qualities the download job is run with.
JobQualities == {"lowest", "high"}
\* The qualities the size estimation is run with.
EstimateQualities == {"lowest", "medium", "HIGH", "best"}

VARIABLES
    callback,       \* ProgressTracker.callback is set
    quality,        \* VideoDownloader.quality
    now,            \* time.time()
    progress,       \* the ProgressTracker's fields
    reports,        \* the latest progress_data handed to the observers, in order
    pc,             \* where download() stands
    result,         \* what download() returned
    proc,           \* the external tool: "none", "running", "exited"
    returncode,     \* process.returncode
    output_file,    \* size of the output file, Missing when absent
    reader,         \* the read_stderr task: "none", "reading", "done", "crashed",
                    \* "cancelled"
    previous_size,  \* read_stderr's previous_size
    lines_read,     \* lines read_stderr has read
    forwards,       \* per size= / bytes= reading: the reading, the largest reading
                    \* before it, whether update_bytes was called, and with what delta
    success,        \* what _execute_ffmpeg_download returned
    estimated_progress, \* what the time= branch did with the line read last
    msg,            \* whether the tracker is bound to a chat message (self.msg)
    scheduled,      \* the progress_func tasks created by the tracker that have
                    \* not started: their current and total
    manifest,       \* what m3u8.loads makes of the master manifest
    variants,       \* playlist.playlists of the master manifest
    selected,       \* what _select_quality_variant returned
    segments,       \* seg.byterange of each of playlist.segments, in order
    est_pc,         \* where the size estimation stands: "load", "sampling", "done",
                    \* "adjusted"
    sample_indices, \* the 0-based indices of the sample segments
    sampled,        \* samples whose _get_segment_size call has returned
    attempt,        \* HEAD requests the running _get_segment_size call has made
    total_size,     \* total_size of the sampling loop
    successful_samples, \* successful_samples of the sampling loop
    heads,          \* HEAD requests issued so far
    estimate,       \* what the estimation returned
    retries,        \* self.retries of the downloader whose _http_get runs
    http_pc,        \* where _http_get stands: "request", "sleep", "returned"
    http_attempt,   \* attempt of the loop of _http_get
    http_log,       \* the requests and sleeps of _http_get, in order
    http_result,    \* what _http_get returned
    clock,          \* time.time() as the progress_func tasks read it
    tasks,          \* the progress_func tasks the tracker has created
    last_update_time_list, \* last_update_time_list[0] of the tracker
    edits_made,     \* calls of msg.edit so far
    last_edit_at,   \* time of the latest call of msg.edit
    quiet_until,    \* end of the latest FloodWait the chat surface asked for
    url,            \* self.url, as url.split("/") gives it: a list of texts
    custom_file_name, \* self.custom_file_name; <<>> for None and for ""
    file_name,      \* file_name of download(); <<>> before it is set
    jobs,           \* per quality_callback: where it stands ("idle", "tool",
                    \* "upload", "cleaned", "failed") and its output path
    default_list,   \* the default last_update_time list of progress_func: its
                    \* element, and the transfer that wrote it last
    throttled,      \* the progress call suppressed last: its transfer and the
                    \* transfer whose update suppressed it
    TASKS,          \* TASKS of the eval plugin at one id: None or the task
    evals,          \* the evaluations started for that id: "idle", "running",
                    \* "cancelled" (handler still to pop), "done"
    file_size,      \* os.path.getsize(input_file)
    split_pc,       \* where split_video_by_size stands: "called", "gather",
                    \* "returned", "raised", "raised_early"
    num_segments,   \* num_segments of the latest call
    split_calls,    \* calls of split_video_by_size made so far
    output_files    \* per output part: its split subprocess, whether the tool
                    \* has opened the file, and the file's size on disk

vars == <<callback, quality, now, progress, reports, pc, result, proc, returncode,
          output_file, reader, previous_size, lines_read, forwards, success,
          estimated_progress, msg, scheduled, manifest, variants, selected, segments, est_pc, sample_indices, sampled, attempt,
          total_size, successful_samples, heads, estimate,
          retries, http_pc, http_attempt, http_log, http_result,
          clock, tasks, last_update_time_list, edits_made, last_edit_at, quiet_until,
          url, custom_file_name, file_name,
          jobs, default_list, throttled, TASKS, evals,
          file_size, split_pc, num_segments, split_calls, output_files>>

jobVars == <<callback, quality, now, progress, reports, pc, result, proc, returncode,
             output_file, reader, previous_size, lines_read, forwards, success,
             estimated_progress, msg, scheduled>>

selVars == <<manifest, variants, selected>>

estVars == <<segments, est_pc, sample_indices, sampled, attempt, total_size,
             successful_samples, heads, estimate>>

httpVars == <<retries, http_pc, http_attempt, http_log, http_result>>

editVars == <<clock, tasks, last_update_time_list, edits_made, last_edit_at,
              quiet_until>>

nameVars == <<url, custom_file_name, file_name>>

\* What the download job, the variant selection, the size estimation,
\* _http_get and the progress_func tasks leave alone.
botVars == <<jobs, default_list, throttled, TASKS, evals>>

splitVars == <<file_size, split_pc, num_segments, split_calls, output_files>>

notJobVars == <<selVars, estVars, httpVars, editVars, nameVars, botVars, splitVars>>
notSelVars == <<jobVars, estVars, httpVars, editVars, nameVars, botVars, splitVars>>
notEstVars == <<jobVars, selVars, httpVars, editVars, nameVars, botVars, splitVars>>
notHttpVars == <<jobVars, selVars, estVars, editVars, nameVars, botVars, splitVars>>
notEditVars == <<jobVars, selVars, estVars, httpVars, nameVars, botVars, splitVars>>

(* ------------------------------ helpers ------------------------------- *)

Lower(s) == IF s = "HIGH" THEN "high" ELSE s

\* round(n / d) to the nearest integer, ties to even, for n >= 0 and d > 0.
RoundDiv(n, d) ==
    LET q == n \div d
        r == n % d
    IN  IF 2 * r < d THEN q
        ELSE IF 2 * r > d THEN q + 1
        ELSE IF q % 2 = 0 THEN q ELSE q + 1

\* round((completed / total) * 100, 2), in hundredths of a percent.
Percentage(p) ==
    IF p.total_bytes = 0 THEN 0
    ELSE RoundDiv(p.completed_bytes * 10000, p.total_bytes)

\* round(n / d) for d > 0 and n of either sign.
SignedRoundDiv(n, d) == IF n < 0 THEN 0 - RoundDiv(0 - n, d) ELSE RoundDiv(n, d)

\* round(eta, 2) with eta = (elapsed_time / percentage) * (100 - percentage)
\* when percentage > 0 and 0 otherwise, in hundredths of a second.
Eta(p, elapsed_time) ==
    IF p.total_bytes # 0 /\ p.completed_bytes * p.total_bytes > 0
    THEN SignedRoundDiv(elapsed_time * (p.total_bytes - p.completed_bytes) * 100,
                        p.completed_bytes)
    ELSE 0

\* A division by zero, in place of its result.
ZeroDivision == -1

\* The speed computed without looking at elapsed_time first.
SpeedUnguarded(p, elapsed_time) ==
    IF elapsed_time = 0 THEN ZeroDivision
    ELSE RoundDiv(p.completed_bytes * 100, elapsed_time)

\* round(speed, 2) with speed = completed_bytes / elapsed_time when
\* elapsed_time > 0 and 0 otherwise, in hundredths of a byte per second.
Speed(p, elapsed_time) ==
    IF elapsed_time > 0 THEN RoundDiv(p.completed_bytes * 100, elapsed_time) ELSE 0

(* ------------------------------ binary64 ------------------------------- *)
(* A Python float: the number m * 2^e, kept as the Precision binary digits *)
(* of m, most significant first, and the exponent e.                       *)

Precision == 53

\* The number of binary digits of n, for 0 <= n < 2^30.
BitLength(n) == CHOOSE l \in 1..30 : n < 2^l /\ (l = 1 \/ n >= 2^(l - 1))

\* The binary digits of n, most significant first.
Bits(n) == [i \in 1..BitLength(n) |-> (n \div 2^(BitLength(n) - i)) % 2]

\* The number whose binary digits are b (taken by halves).
RECURSIVE Value(_)
Value(b) ==
    IF b = <<>> THEN 0
    ELSE IF Len(b) = 1 THEN b[1]
    ELSE LET h == Len(b) \div 2
         IN  Value(SubSeq(b, 1, h)) * 2^(Len(b) - h) + Value(SubSeq(b, h + 1, Len(b)))

\* The digits of Value(b) + 1: one digit more than b when b is all ones.
Increment(b) ==
    IF \A i \in 1..Len(b) : b[i] = 1
    THEN [i \in 1..Len(b) + 1 |-> IF i = 1 THEN 1 ELSE 0]
    ELSE LET j == CHOOSE k \in 1..Len(b) :
                      b[k] = 0 /\ \A i \in k + 1..Len(b) : b[i] = 1
         IN  [i \in 1..Len(b) |-> IF i < j THEN b[i] ELSE IF i = j THEN 1 ELSE 0]

\* Rounding to nearest, ties to even, of the number with the digits b (at
\* least Precision of them) and the exponent e; sticky tells that nonzero
\* digits follow those of b.
RoundToPrecision(b, e, sticky) ==
    LET kept == SubSeq(b, 1, Precision)
        rest == SubSeq(b, Precision + 1, Len(b))
        half == rest # <<>> /\ rest[1] = 1
        below == sticky \/ \E i \in 2..Len(rest) : rest[i] = 1
        m == IF half /\ (below \/ kept[Precision] = 1) THEN Increment(kept) ELSE kept
    IN  IF Len(m) > Precision
        THEN [m |-> SubSeq(m, 1, Precision), e |-> e + Len(rest) + 1]
        ELSE [m |-> m, e |-> e + Len(rest)]

\* The digits are worked on ChunkWidth at a time.
ChunkWidth == 12

\* The w binary digits of v < 2^w, most significant first.
FixedBits(v, w) == [i \in 1..w |-> (v \div 2^(w - i)) % 2]

\* The next k binary digits of r / b for 0 <= r < b, and the remainder left.
RECURSIVE FractionBits(_, _, _)
FractionBits(r, b, k) ==
    IF k <= ChunkWidth
    THEN [bits |-> FixedBits((r * 2^k) \div b, k), rem |-> (r * 2^k) % b]
    ELSE LET first == FractionBits(r, b, ChunkWidth)
             others == FractionBits(first.rem, b, k - ChunkWidth)
         IN  [bits |-> first.bits \o others.bits, rem |-> others.rem]

\* a / b of two ints a >= b > 0: the float nearest to the quotient.
TrueDiv(a, b) ==
    LET whole == Bits(a \div b)
        k == Precision + 1 - Len(whole)
        f == FractionBits(a % b, b, k)
    IN  RoundToPrecision(whole \o f.bits, -k, f.rem # 0)

\* The digits a product by n is worked on at a time: as many as keep the
\* partial products below 2^31.
TimesWidth(n) ==
    IF BitLength(n) + ChunkWidth <= 31 THEN ChunkWidth ELSE 31 - BitLength(n)

\* The last Len(b) digits of Value(b) * n + carry, and what is carried out of
\* them.
RECURSIVE TimesDigits(_, _, _)
TimesDigits(b, n, carry) ==
    LET w == TimesWidth(n)
    IN  IF Len(b) <= w
        THEN LET v == Value(b) * n + carry
             IN  [bits |-> FixedBits(v % 2^Len(b), Len(b)), carry |-> v \div 2^Len(b)]
        ELSE LET low == TimesDigits(SubSeq(b, Len(b) - w + 1, Len(b)), n, carry)
                 high == TimesDigits(SubSeq(b, 1, Len(b) - w), n, low.carry)
             IN  [bits |-> high.bits \o low.bits, carry |-> high.carry]

\* The digits of Value(b) * n.
Product(b, n) ==
    LET p == TimesDigits(b, n, 0)
    IN  IF p.carry = 0 THEN p.bits ELSE Bits(p.carry) \o p.bits

\* x * n of a float x and an int n >= 0: the float nearest to the product.
Times(x, n) == RoundToPrecision(Product(x.m, n), x.e, FALSE)

\* int(x) of a float 0 <= x < 2^31: the digits before the binary point.
Trunc(x) ==
    IF Precision + x.e < 1 THEN 0 ELSE Value(SubSeq(x.m, 1, Precision + x.e))

(* --------------------------- ProgressTracker --------------------------- *)
(* The tracker's methods work on a context c: the tracker's fields (p),    *)
(* the reports dispatched so far (log), the number of dispatches of the    *)
(* running stretch of code (n) and whether an exception is propagating     *)
(* (exc).  rs is the set of dispatches of the stretch at which the         *)
(* callback raises.  A method called while an exception propagates does    *)
(* not run.                                                                *)

ProgressTrackerInit ==
    [total_bytes |-> 0, completed_bytes |-> 0, status |-> "initializing",
     last_update_time |-> 0, file_name |-> "Initializing..."]

\* The reports kept: the latest KeptReports of them.
Latest(log) ==
    IF Len(log) > KeptReports THEN SubSeq(log, Len(log) - KeptReports + 1, Len(log))
    ELSE log

Ctx == [p |-> progress, log |-> reports, n |-> 0, exc |-> FALSE, created |-> <<>>]

ReportProgress(c, t, rs) ==
    LET rep == [time |-> t,
                status |-> c.p.status,
                completed_bytes |-> c.p.completed_bytes,
                total_bytes |-> c.p.total_bytes,
                percentage |-> Percentage(c.p),
                eta |-> Eta(c.p, t - StartTime),
                speed |-> Speed(c.p, t - StartTime)]
        raises == callback /\ (c.n + 1) \in rs
    IN  [c EXCEPT !.log = Latest(Append(@, rep)),
                  !.n = @ + 1,
                  !.exc = raises,
                  !.created = IF msg /\ ~raises
                              THEN Append(@, [current |-> c.p.completed_bytes,
                                              total |-> c.p.total_bytes])
                              ELSE @]

UpdateBytes(c, bytes_completed, st, t, rs) ==
    IF c.exc THEN c
    ELSE LET p1 == [c.p EXCEPT !.completed_bytes = @ + bytes_completed,
                               !.status = IF st # "" THEN st ELSE @]
         IN  IF t - p1.last_update_time >= UpdateInterval
             THEN ReportProgress([c EXCEPT !.p = [p1 EXCEPT !.last_update_time = t]],
                                 t, rs)
             ELSE [c EXCEPT !.p = p1]

SetTotalBytes(c, total, t, rs) ==
    IF c.exc THEN c
    ELSE ReportProgress([c EXCEPT !.p.total_bytes = total], t, rs)

SetFileName(c, name, t, rs) ==
    IF c.exc THEN c
    ELSE ReportProgress([c EXCEPT !.p.file_name = name], t, rs)

(* ------------------------ VideoDownloader.download --------------------- *)

\* The dispatches of one stretch of code at which the callback raises.
RaiseSets == IF callback THEN SUBSET (1..2) ELSE {{}}

\* The multipliers with 1.2 for every quality they do not name.
QualityMultiplierMediumDefault(q) ==
    IF Lower(q) = "lowest" THEN 10
    ELSE IF Lower(q) = "medium" THEN 12
    ELSE IF Lower(q) = "high" THEN 15
    ELSE 12

\* quality_multipliers.get(self.quality.lower(), 1.0), in tenths.
QualityMultiplier(q) ==
    IF Lower(q) = "lowest" THEN 10
    ELSE IF Lower(q) = "medium" THEN 12
    ELSE IF Lower(q) = "high" THEN 15
    ELSE 10

\* int(total_bytes * multiplier): the multiplier is the float nearest to the
\* decimal written in the code.
AdjustedTotal(total, q) == Trunc(Times(TrueDiv(QualityMultiplier(q), 10), total))

\* The except clause without its update_bytes.
ExceptHandlerSilent(c, t, rs) == [c EXCEPT !.exc = FALSE]

\* The except clause of download(): entered when an exception propagates out
\* of the try block; its own update_bytes may raise again.
ExceptHandler(c, t, rs) ==
    IF c.exc THEN UpdateBytes([c EXCEPT !.exc = FALSE], 0, "Error", t, rs) ELSE c

\* The end of a stretch of download(): with no exception download() goes on to
\* okpc (having returned okres when okpc is "done"); with one the except clause
\* runs and download() returns (False, None), or the exception escapes.
Commit(c, t, rs, okpc, okres) ==
    LET h == ExceptHandler(c, t, rs)
    IN  /\ progress' = h.p
        /\ reports' = h.log
        /\ scheduled' = scheduled \o h.created
        /\ pc' = IF c.exc THEN "done" ELSE okpc
        /\ result' = IF ~c.exc THEN okres
                     ELSE IF h.exc THEN "raised" ELSE "fail"

\* download() up to the await of _fetch_page_content.
Start ==
    /\ pc = "init"
    /\ \E rs \in RaiseSets :
          Commit(UpdateBytes(Ctx, 0, "Fetching video page", now, rs),
                 now, rs, "fetch_page", "none")
    /\ UNCHANGED <<callback, quality, now, proc, returncode, output_file, reader,
                   previous_size, lines_read, forwards, success, estimated_progress, msg, notJobVars>>

\* From the page fetch to the await of _process_m3u8_playlist.  page is what
\* _fetch_page_content gave: nothing, a page without the identifier, or one with it.
PageFetched ==
    /\ pc = "fetch_page"
    /\ \E d \in Delays, page \in {"none", "no_uuid", "ok"}, rs \in RaiseSets :
          LET t == now + d
              c1 == UpdateBytes(Ctx, 0, "Extracting video information", t, rs)
          IN  /\ now' = t
              /\ CASE page = "none" ->
                        Commit(UpdateBytes(Ctx, 0, "Failed to fetch page content", t, rs),
                               t, rs, "done", "fail")
                   [] page = "no_uuid" ->
                        Commit(UpdateBytes(c1, 0, "Failed to extract video information",
                                           t, rs),
                               t, rs, "done", "fail")
                   [] page = "ok" ->
                        Commit(UpdateBytes(SetFileName(c1, "file_name", t, rs),
                                           0, "Processing playlist", t, rs),
                               t, rs, "playlist", "none")
    /\ UNCHANGED <<callback, quality, proc, returncode, output_file, reader,
                   previous_size, lines_read, forwards, success, estimated_progress, msg, notJobVars>>

\* What _process_m3u8_playlist gives: nothing, an exception (the undecodable
\* manifest of line 305), or the variant with the raw size estimate.
PlaylistOutcomes ==
    {[kind |-> k, total_bytes |-> 0] : k \in {"none", "raise"}}
    \cup {[kind |-> "ok", total_bytes |-> e] : e \in RawEstimates}

\* From the return of _process_m3u8_playlist to the await that spawns the tool.
PlaylistProcessed ==
    /\ pc = "playlist"
    /\ \E d \in Delays, outcome \in PlaylistOutcomes, rs \in RaiseSets :
          LET t == now + d
          IN  /\ now' = t
              /\ CASE outcome.kind = "none" ->
                        Commit(UpdateBytes(Ctx, 0, "Failed to process playlist", t, rs),
                               t, rs, "done", "fail")
                   [] outcome.kind = "raise" ->
                        Commit([Ctx EXCEPT !.exc = TRUE], t, rs, "done", "fail")
                   [] OTHER ->
                        Commit(UpdateBytes(SetTotalBytes(Ctx, AdjustedTotal(outcome.total_bytes,
                                                                       quality),
                                                         t, rs),
                                           0, "Starting download", t, rs),
                               t, rs, "spawn", "none")
    /\ UNCHANGED <<callback, quality, proc, returncode, output_file, reader,
                   previous_size, lines_read, forwards, success, estimated_progress, msg, notJobVars>>

(* ---------------- VideoDownloader._execute_ffmpeg_download -------------- *)

\* await asyncio.create_subprocess_exec(...): the tool starts and the reader
\* task is created, or the spawn raises, the executor returns False and
\* download() marks the job failed.
Spawn ==
    /\ pc = "spawn"
    /\ \E d \in Delays, started \in BOOLEAN, rs \in RaiseSets :
          LET t == now + d
          IN  /\ now' = t
              /\ IF started
                 THEN /\ proc' = "running"
                      /\ reader' = "reading"
                      /\ pc' = "wait"
                      /\ UNCHANGED <<progress, reports, result, success, scheduled>>
                 ELSE /\ success' = "false"
                      /\ Commit(UpdateBytes(Ctx, 0, "Download failed", t, rs),
                                t, rs, "done", "fail")
                      /\ UNCHANGED <<proc, reader>>
    /\ UNCHANGED <<callback, quality, returncode, output_file, previous_size,
                   lines_read, forwards, estimated_progress, msg, notJobVars>>

\* The external tool exits.
ProcessExits ==
    /\ proc = "running"
    /\ \E d \in Delays : now' = now + d
    /\ proc' = "exited"
    /\ UNCHANGED <<callback, quality, progress, reports, pc, result, returncode,
                   output_file, reader, previous_size, lines_read, forwards, success,
                   estimated_progress, msg, scheduled, notJobVars>>

\* A line of the diagnostic stream: what size_pattern, byte_pattern and
\* time_pattern find in it (NoMatch when the pattern does not match).
Lines ==
    {l \in [size : Readings \cup {NoMatch},
            bytes : Readings \cup {NoMatch},
            time : TimeMarks \cup {NoMatch}] :
        l.size # NoMatch => l.bytes = NoMatch /\ l.time \in {NoMatch, EstimateSpan}}

\* An exception of update_bytes is caught by the try around it.
Caught(c) == [c EXCEPT !.exc = FALSE]

\* The size= and bytes= branches: a cumulative reading above previous_size
\* forwards the difference; previous_size is set after update_bytes returned.
ForwardReading(r, cumulative_size) ==
    IF cumulative_size > r.prev
    THEN LET c1 == UpdateBytes(r.c, cumulative_size - r.prev, "Downloading", r.t, r.rs)
         IN  [r EXCEPT !.c = Caught(c1),
                       !.prev = IF c1.exc THEN r.prev ELSE cumulative_size,
                       !.fwd = Append(@, [reading |-> cumulative_size,
                                          prev_max |-> r.max,
                                          forwarded |-> TRUE,
                                          delta |-> cumulative_size - r.prev]),
                       !.max = IF cumulative_size > @ THEN cumulative_size ELSE @]
    ELSE [r EXCEPT !.fwd = Append(@, [reading |-> cumulative_size,
                                      prev_max |-> r.max,
                                      forwarded |-> FALSE,
                                      delta |-> 0])]

\* The time= branch has forwarded nothing.
NoEstimate == [delta |-> NoMatch, completed_bytes |-> 0, total_bytes |-> 0, elapsed |-> 0]

\* The test of little progress passed whatever was completed.
LittleProgressAlways(p) == TRUE

\* self.progress.completed_bytes < (self.progress.total_bytes * 0.1)
LittleProgress(p) == p.completed_bytes * 10 < p.total_bytes

\* The time= branch: a linear estimate against EstimateSpan seconds, capped at
\* 95% of the total, while less than 10% of the total is completed.  The
\* delta is int(estimated_progress - completed_bytes).
ForwardTimeEstimate(r, total_seconds) ==
    LET p == r.c.p
        capped == total_seconds * 100 >= 95 * EstimateSpan
        num == IF capped THEN 95 * p.total_bytes ELSE total_seconds * p.total_bytes
        den == IF capped THEN 100 ELSE EstimateSpan
        delta == (num - p.completed_bytes * den) \div den
    IN  IF /\ p.total_bytes > 0
           /\ r.t - StartTime > EstimateAfter
           /\ total_seconds > 0
           /\ LittleProgress(p)
           /\ num > p.completed_bytes * den
        THEN [r EXCEPT !.c = Caught(UpdateBytes(r.c, delta, "Downloading (estimated)",
                                                r.t, r.rs)),
                       !.est = [delta |-> delta,
                                completed_bytes |-> p.completed_bytes,
                                total_bytes |-> p.total_bytes,
                                elapsed |-> r.t - StartTime]]
        ELSE r

\* The body of read_stderr's loop for one line.
ReadStderrLine(r, line) ==
    IF line.size # NoMatch
    THEN ForwardReading(r, line.size)
    ELSE LET r1 == IF line.bytes # NoMatch THEN ForwardReading(r, line.bytes) ELSE r
         IN  IF line.time # NoMatch THEN ForwardTimeEstimate(r1, line.time) ELSE r1

MaxForwarded == IF forwards = <<>> THEN 0 ELSE
    LET S == {forwards[i].reading : i \in 1..Len(forwards)}
    IN  CHOOSE m \in S : \A x \in S : x <= m

\* read_stderr reads one line and handles it.
ReaderLine ==
    /\ reader = "reading"
    /\ lines_read < MaxLines
    /\ \E d \in Delays, line \in Lines, rs \in RaiseSets :
          LET r == ReadStderrLine([c |-> Ctx, prev |-> previous_size, fwd |-> forwards,
                                   max |-> MaxForwarded, t |-> now + d, rs |-> rs,
                                   est |-> NoEstimate],
                                  line)
          IN  /\ now' = now + d
              /\ progress' = r.c.p
              /\ reports' = r.c.log
              /\ scheduled' = scheduled \o r.c.created
              /\ previous_size' = r.prev
              /\ forwards' = r.fwd
              /\ estimated_progress' = r.est
    /\ lines_read' = lines_read + 1
    /\ UNCHANGED <<callback, quality, pc, result, proc, returncode, output_file,
                   reader, success, msg, notJobVars>>

\* readline() returns nothing: the stream ended, which it does once the tool
\* has exited.
ReaderEOF ==
    /\ reader = "reading"
    /\ proc = "exited"
    /\ reader' = "done"
    /\ UNCHANGED <<callback, quality, now, progress, reports, pc, result, proc,
                   returncode, output_file, previous_size, lines_read, forwards,
                   success, estimated_progress, msg, scheduled, notJobVars>>

\* readline() raises (a line longer than the stream's limit): the task ends
\* with the exception.
ReaderCrash ==
    /\ reader = "reading"
    /\ reader' = "crashed"
    /\ UNCHANGED <<callback, quality, now, progress, reports, pc, result, proc,
                   returncode, output_file, previous_size, lines_read, forwards,
                   success, estimated_progress, msg, scheduled, notJobVars>>

\* await process.wait() returns.
WaitReturns ==
    /\ pc = "wait"
    /\ proc = "exited"
    /\ pc' = "join"
    /\ UNCHANGED <<callback, quality, now, progress, reports, result, proc,
                   returncode, output_file, reader, previous_size, lines_read,
                   forwards, success, estimated_progress, msg, scheduled, notJobVars>>

\* The executor without its await of monitor_task.
MonitorTaskNotAwaited == TRUE

\* await monitor_task returns (or raises what the task raised).
MonitorTaskFinished == reader \in {"done", "crashed"}

\* The checks after the two awaits: the task did not raise, the exit status
\* is zero, the output file exists and is not empty.
ExecutorSucceeds(rc, file) ==
    /\ reader # "crashed"
    /\ rc = 0
    /\ ~(file = Missing \/ file = 0)

\* download() after a successful transfer, correcting total_bytes alone.
FinalizeTotalOnly(c, file, t, rs) ==
    UpdateBytes(IF file # Missing THEN SetTotalBytes(c, file, t, rs) ELSE c,
                0, "Download completed", t, rs)

\* download() after a successful transfer.
Finalize(c, file, t, rs) ==
    LET c1 == IF file # Missing
              THEN LET c2 == SetTotalBytes(c, file, t, rs)
                   IN  IF c2.exc THEN c2
                       ELSE [c2 EXCEPT !.p.completed_bytes = file]
              ELSE c
    IN  UpdateBytes(c1, 0, "Download completed", t, rs)

\* From the end of await monitor_task to the return of download().  exit is
\* what the tool left: its exit status and its output file.
Join ==
    /\ pc = "join"
    /\ MonitorTaskFinished
    /\ \E exit \in ExitOutcomes, rs \in RaiseSets :
          /\ returncode' = exit.returncode
          /\ output_file' = exit.output_file
          /\ IF ExecutorSucceeds(exit.returncode, exit.output_file)
             THEN /\ success' = "true"
                  /\ Commit(Finalize(Ctx, exit.output_file, now, rs),
                            now, rs, "done", "ok")
             ELSE /\ success' = "false"
                  /\ Commit(UpdateBytes(Ctx, 0, "Download failed", now, rs),
                            now, rs, "done", "fail")
    /\ UNCHANGED <<callback, quality, now, proc, reader, previous_size, lines_read,
                   forwards, estimated_progress, msg, notJobVars>>

\* The task running download() is cancelled at one of its awaits:
\* CancelledError is raised there and, not being an Exception, passes the
\* except clauses of the executor and of download().  The tracker is not
\* touched, the process is left as it is, and the reader task is cancelled
\* only when it is the task awaited (await monitor_task).
Cancel ==
    /\ pc \in {"fetch_page", "playlist", "spawn", "wait", "join"}
    /\ pc' = "done"
    /\ result' = "cancelled"
    /\ reader' = IF pc = "join" /\ reader = "reading" THEN "cancelled" ELSE reader
    /\ UNCHANGED <<callback, quality, now, progress, reports, proc, returncode,
                   output_file, previous_size, lines_read, forwards, success,
                   estimated_progress, msg, scheduled, notJobVars>>

(* ---------------- VideoDownloader._select_quality_variant --------------- *)

\* A variant of the master manifest: its URI (here its place in the manifest)
\* and its BANDWIDTH.
Manifests ==
    UNION {[1..n -> 1..MaxBandwidth] : n \in 0..MaxVariants}

Playlists(m) == [i \in 1..Len(m) |-> [uri |-> i, bandwidth |-> m[i]]]

\* One element put into a list sorted by bandwidth, before its equals.
RECURSIVE InsertBeforeEquals(_, _)
InsertBeforeEquals(sorted, v) ==
    IF sorted = <<>> THEN <<v>>
    ELSE IF v.bandwidth <= Head(sorted).bandwidth THEN <<v>> \o sorted
    ELSE <<Head(sorted)>> \o InsertBeforeEquals(Tail(sorted), v)

\* One element put into a list sorted by bandwidth, after its equals.
RECURSIVE Insert(_, _)
Insert(sorted, v) ==
    IF sorted = <<>> THEN <<v>>
    ELSE IF v.bandwidth < Head(sorted).bandwidth THEN <<v>> \o sorted
    ELSE <<Head(sorted)>> \o Insert(Tail(sorted), v)

\* sorted(playlist.playlists, key=lambda p: p.stream_info.bandwidth): stable.
RECURSIVE SortedByBandwidth(_)
SortedByBandwidth(ps) ==
    IF ps = <<>> THEN <<>>
    ELSE Insert(SortedByBandwidth(SubSeq(ps, 1, Len(ps) - 1)), ps[Len(ps)])

Min(a, b) == IF a < b THEN a ELSE b

\* The index with "medium" taking the lower of the two middle variants.
QualityIndexLowerMiddle(q, n) ==
    LET quality_lower == Lower(q)
    IN  IF quality_lower = "lowest" THEN 0
        ELSE IF quality_lower = "high" THEN n - 1
        ELSE (n - 1) \div 2

\* The 0-based index _select_quality_variant takes of n >= 1 sorted variants
\* (n - 1 is Python's variants[-1], the last one).
QualityIndex(q, n) ==
    LET quality_lower == Lower(q)
    IN  IF quality_lower = "lowest" THEN 0
        ELSE IF quality_lower = "high" THEN n - 1
        ELSE IF quality_lower = "medium"
             THEN IF n >= 3 THEN n \div 2 ELSE n - 1
        ELSE Min(n \div 2, n - 1)

\* None, and the value of selected before the call.
None == 0
Unset == -1

\* The selection with no fallback for a quality it does not know.
SelectKnownQualityOnly(ps, q) ==
    LET sorted == SortedByBandwidth(ps)
    IN  IF sorted = <<>> \/ Lower(q) \notin {"lowest", "medium", "high"} THEN None
        ELSE sorted[QualityIndex(q, Len(sorted)) + 1].uri

\* _select_quality_variant on a variant playlist: the URI, or None.
SelectQualityVariant(ps, q) ==
    LET sorted == SortedByBandwidth(ps)
    IN  IF sorted = <<>> THEN None
        ELSE sorted[QualityIndex(q, Len(sorted)) + 1].uri

\* What m3u8.loads makes of the text of the master manifest: it raises, or it
\* gives a playlist that is not a variant playlist, or a variant playlist.
ManifestKinds == {"malformed", "not_variant", "variant"}

\* _select_quality_variant on the text of a manifest: None from the except
\* clause when m3u8.loads raises, None when the playlist is not a variant
\* playlist, and the selection among the variants otherwise.
SelectFromManifest(kind, ps, q) ==
    IF kind = "malformed" THEN None
    ELSE IF kind = "not_variant" THEN None
    ELSE SelectQualityVariant(ps, q)

SelectVariant ==
    /\ selected = Unset
    /\ selected' = SelectFromManifest(manifest, variants, quality)
    /\ UNCHANGED <<manifest, variants, notSelVars>>

(* ---------------- VideoDownloader._process_m3u8_playlist --------------- *)
(* The size estimation, from m3u8.loads of the media manifest to the       *)
(* return.  seg.byterange is the text of the segment's EXT-X-BYTERANGE tag *)
(* ("length@offset"), or None without the tag: here the pair               *)
(* <<length, offset>>, or the empty tuple.                                 *)

\* retries of the VideoDownloader.
Retries == 3

NoByteRange == <<>>

\* The media manifests: n segments, all of them or none of them with a byte
\* range, and two segments of which the first alone has one.
AllRanged(n) == [i \in 1..n |-> <<MaxProbeSize * i, 0>>]
NoneRanged(n) == [i \in 1..n |-> NoByteRange]
FirstRanged(n) == [i \in 1..n |-> IF i = 1 THEN <<MaxProbeSize, 0>> ELSE NoByteRange]
SegmentLists ==
    UNION {{AllRanged(n), NoneRanged(n)} : n \in 0..MaxSegments} \cup {FirstRanged(2)}

\* The Content-Length values of a HEAD response.
ProbeSizes == {0, MaxProbeSize - 1, MaxProbeSize}

\* The attributes of a str that the code reads: length is none of them.
StrAttributes == {}

\* The sum raising whatever the segments are.
ByteRangeTotalRaising(segs) == [raised |-> TRUE, total_bytes |-> 0]

\* sum(seg.byterange.length for seg in playlist.segments): the attribute
\* lookup on the text of the first segment raises AttributeError.
ByteRangeTotal(segs) ==
    IF segs # <<>> /\ "length" \notin StrAttributes
    THEN [raised |-> TRUE, total_bytes |-> 0]
    ELSE [raised |-> FALSE, total_bytes |-> 0]

\* {"lowest": 3, "medium": 5, "high": 8}.get(self.quality.lower(), 3)
SampleCount(q) ==
    IF Lower(q) = "lowest" THEN 3
    ELSE IF Lower(q) = "medium" THEN 5
    ELSE IF Lower(q) = "high" THEN 8
    ELSE 3

\* The indices with a step of whole segments.
SampleIndicesWholeStep(total_segments, q) ==
    LET sample_count == SampleCount(q)
    IN  IF total_segments <= sample_count
        THEN [i \in 1..total_segments |-> i - 1]
        ELSE [i \in 1..sample_count |->
                 Min((i - 1) * (total_segments \div sample_count), total_segments - 1)]

\* sample_indices, 0-based.
SampleIndices(total_segments, q) ==
    LET sample_count == SampleCount(q)
    IN  IF total_segments <= sample_count
        THEN [i \in 1..total_segments |-> i - 1]
        ELSE LET step == TrueDiv(total_segments, sample_count)
             IN  [i \in 1..sample_count |->
                     Min(Trunc(Times(step, i - 1)), total_segments - 1)]

\* The fallback with 512 KB for every quality it does not know.
FallbackSizeHalfDefault(q) ==
    IF Lower(q) = "lowest" THEN 524288
    ELSE IF Lower(q) = "medium" THEN 1048576
    ELSE IF Lower(q) = "high" THEN 2097152
    ELSE 524288

\* fallback_sizes.get(self.quality.lower(), 1048576)
FallbackSize(q) ==
    IF Lower(q) = "lowest" THEN 524288
    ELSE IF Lower(q) = "medium" THEN 1048576
    ELSE IF Lower(q) = "high" THEN 2097152
    ELSE 1048576

\* total_bytes once the sampling loop has ended.
SampledTotal(size_sum, successful, total_segments, q) ==
    IF successful > 0
    THEN Trunc(Times(TrueDiv(size_sum, successful), total_segments))
    ELSE total_segments * FallbackSize(q)

\* m3u8.loads to the first HEAD request, or to the return when there is none.
LoadSegments ==
    /\ est_pc = "load"
    /\ IF \A i \in 1..Len(segments) : segments[i] # NoByteRange
       THEN LET sum == ByteRangeTotal(segments)
            IN  /\ estimate' = IF sum.raised THEN [kind |-> "none", total_bytes |-> 0]
                               ELSE [kind |-> "ok", total_bytes |-> sum.total_bytes]
                /\ est_pc' = "done"
                /\ UNCHANGED sample_indices
       ELSE LET indices == SampleIndices(Len(segments), quality)
            IN  /\ sample_indices' = indices
                /\ IF indices = <<>>
                   THEN /\ estimate' = [kind |-> "none", total_bytes |-> 0]
                        /\ est_pc' = "done"
                   ELSE /\ est_pc' = "sampling"
                        /\ UNCHANGED estimate
    /\ UNCHANGED <<segments, sampled, attempt, total_size, successful_samples, heads,
                   notEstVars>>

\* _get_segment_size has returned size (answered) or None: the rest of the
\* loop body and, after the last sample, the estimate and the return.
SampleReturned(answered, size) ==
    LET counted == answered /\ size # 0
        size_sum == IF counted THEN total_size + size ELSE total_size
        successful == IF counted THEN successful_samples + 1 ELSE successful_samples
    IN  /\ total_size' = size_sum
        /\ successful_samples' = successful
        /\ sampled' = sampled + 1
        /\ attempt' = 0
        /\ IF sampled + 1 = Len(sample_indices)
           THEN /\ est_pc' = "done"
                /\ estimate' = [kind |-> "ok",
                                total_bytes |-> SampledTotal(size_sum, successful,
                                                             Len(segments), quality)]
           ELSE UNCHANGED <<est_pc, estimate>>

\* A HEAD request is answered with status 200 and a Content-Length.
HeadAnswered ==
    /\ est_pc = "sampling"
    /\ attempt < Retries
    /\ heads' = heads + 1
    /\ \E content_length \in ProbeSizes : SampleReturned(TRUE, content_length)
    /\ UNCHANGED <<segments, sample_indices, notEstVars>>

\* A HEAD request is answered with another status or without a
\* Content-Length, or it raises and the code sleeps: the next attempt follows,
\* and after the last one _get_segment_size returns None.
HeadFailed ==
    /\ est_pc = "sampling"
    /\ attempt < Retries
    /\ heads' = heads + 1
    /\ IF attempt + 1 < Retries
       THEN /\ attempt' = attempt + 1
            /\ UNCHANGED <<est_pc, sampled, total_size, successful_samples, estimate>>
       ELSE SampleReturned(FALSE, 0)
    /\ UNCHANGED <<segments, sample_indices, notEstVars>>

\* download() from the return of _process_m3u8_playlist with an estimate to
\* set_total_bytes(adjusted_total_bytes).
TotalAdjusted ==
    /\ est_pc = "done"
    /\ estimate.kind = "ok"
    /\ est_pc' = "adjusted"
    /\ LET c == SetTotalBytes(Ctx, AdjustedTotal(estimate.total_bytes, quality), now, {})
       IN  /\ progress' = c.p
           /\ reports' = c.log
           /\ scheduled' = scheduled \o c.created
    /\ UNCHANGED <<callback, quality, now, pc, result, proc, returncode, output_file,
                   reader, previous_size, lines_read, forwards, success,
                   estimated_progress, msg>>
    /\ UNCHANGED <<segments, sample_indices, sampled, attempt, total_size,
                   successful_samples, heads, estimate>>
    /\ UNCHANGED <<selVars, httpVars, editVars, nameVars, botVars, splitVars>>

(* ----------------------- VideoDownloader._http_get ---------------------- *)

\* delay of the VideoDownloader, in seconds.
Delay == 2

\* What a GET request gives: a response with a status, or an exception of the
\* transport (TransportError in place of the status).
TransportError == 0
Statuses == {200, 399, 400, 503}

\* The loop with one attempt more.
AttemptsLeftInclusive(n) == n <= retries + 1

\* for attempt in range(1, self.retries + 1): attempt n is made.
AttemptsLeft(n) == n <= retries

\* What follows an attempt that was not the return: the next attempt, or the
\* return None after the loop.
NextAttempt(n) ==
    /\ http_attempt' = n
    /\ IF AttemptsLeft(n)
       THEN /\ http_pc' = "request"
            /\ UNCHANGED http_result
       ELSE /\ http_pc' = "returned"
            /\ http_result' = [kind |-> "none", attempt |-> 0]

\* The call of _http_get up to its first await.
HttpGetCalled ==
    /\ http_pc = "called"
    /\ NextAttempt(1)
    /\ UNCHANGED <<retries, http_log, notHttpVars>>

\* await asyncio.to_thread(requests.get, ...) ends with a response or with an
\* exception: the body is returned, or the code goes to sleep.
HttpRequestDone ==
    /\ http_pc = "request"
    /\ \E outcome \in Statuses \cup {TransportError} :
          /\ http_log' = Append(http_log, [kind |-> "request", value |-> outcome])
          /\ IF outcome # TransportError /\ ~(outcome >= 400)
             THEN /\ http_pc' = "returned"
                  /\ http_result' = [kind |-> "content", attempt |-> http_attempt]
             ELSE /\ http_pc' = "sleep"
                  /\ UNCHANGED http_result
    /\ UNCHANGED <<retries, http_attempt, notHttpVars>>

\* await asyncio.sleep(self.delay) ends: the loop goes on.
HttpSleepDone ==
    /\ http_pc = "sleep"
    /\ http_log' = Append(http_log, [kind |-> "sleep", value |-> Delay])
    /\ NextAttempt(http_attempt + 1)
    /\ UNCHANGED <<retries, notHttpVars>>

(* ------------------ progress_func (src/utils/progress.py) --------------- *)
(* _report_progress of a tracker with a message creates one task per       *)
(* dispatch; the tasks share last_update_time_list.  A task runs from its   *)
(* start to await msg.edit without interruption.                           *)

\* current and total of a dispatch: completed_bytes and total_bytes.
Currents == {0, MaxReading}
Totals == {0, MaxReading}
\* The seconds a FloodWait asks for.
FloodWaits == {MaxFloodWait}

\* A task not created yet, and a task at pc whose arguments are of no use
\* any more.
NoTask == [pc |-> "absent", current |-> 0, total |-> 0, wake |-> 0]
At(pc_of_task) == [NoTask EXCEPT !.pc = pc_of_task]

\* asyncio.create_task(progress_func(current, total, ...)).
CreateTask ==
    /\ \E i \in 1..MaxTasks :
          /\ tasks[i].pc = "absent"
          /\ \A j \in 1..(i - 1) : tasks[j].pc # "absent"
          /\ \E current \in Currents, total \in Totals :
                tasks' = [tasks EXCEPT ![i] = [pc |-> "scheduled", current |-> current,
                                               total |-> total, wake |-> 0]]
    /\ UNCHANGED <<clock, last_update_time_list, edits_made, last_edit_at, quiet_until,
                   notEditVars>>

\* A call of msg.edit is made now.
EditIssued ==
    /\ edits_made' = edits_made + 1
    /\ last_edit_at' = clock

\* progress_func from its start to await msg.edit(progress_message), or to
\* the return of the throttle.
ProgressStarts(i) ==
    /\ tasks[i].pc = "scheduled"
    /\ IF /\ tasks[i].current < tasks[i].total
          /\ clock - last_update_time_list < UpdateInterval
       THEN /\ tasks' = [tasks EXCEPT ![i] = At("done")]
            /\ UNCHANGED <<last_update_time_list, edits_made, last_edit_at>>
       ELSE /\ last_update_time_list' = clock
            /\ EditIssued
            /\ tasks' = [tasks EXCEPT ![i] = At("edit")]
    /\ UNCHANGED <<clock, quiet_until, notEditVars>>

\* The later of two times.
Later(a, b) == IF a > b THEN a ELSE b

\* await msg.edit(progress_message) ends: with the edit made, with a
\* FloodWait (the task goes to sleep for e.value seconds), or with another
\* exception (the task edits again, with the text of the exception).
EditAnswered(i) ==
    /\ tasks[i].pc = "edit"
    /\ \/ /\ tasks' = [tasks EXCEPT ![i] = At("done")]
          /\ UNCHANGED <<edits_made, last_edit_at, quiet_until>>
       \/ \E value \in FloodWaits :
             /\ tasks' = [tasks EXCEPT ![i] = [At("sleep") EXCEPT !.wake = clock + value]]
             /\ quiet_until' = Later(quiet_until, clock + value)
             /\ UNCHANGED <<edits_made, last_edit_at>>
       \/ /\ tasks' = [tasks EXCEPT ![i] = At("edit_error")]
          /\ EditIssued
          /\ UNCHANGED quiet_until
    /\ UNCHANGED <<clock, last_update_time_list, notEditVars>>

\* await msg.edit(str(e)) ends: with the edit made or with an exception that
\* ends the task, a FloodWait among them.
ErrorEditAnswered(i) ==
    /\ tasks[i].pc = "edit_error"
    /\ tasks' = [tasks EXCEPT ![i] = At("done")]
    /\ \/ UNCHANGED quiet_until
       \/ \E value \in FloodWaits : quiet_until' = Later(quiet_until, clock + value)
    /\ UNCHANGED <<clock, last_update_time_list, edits_made, last_edit_at, notEditVars>>

\* await asyncio.sleep(e.value) ends.
SleepOver(i) ==
    /\ tasks[i].pc = "sleep"
    /\ clock >= tasks[i].wake
    /\ tasks' = [tasks EXCEPT ![i] = At("done")]
    /\ UNCHANGED <<clock, last_update_time_list, edits_made, last_edit_at, quiet_until,
                   notEditVars>>

\* The oldest progress_func task the tracker created starts, at a moment the
\* event loop is free: it returns at the throttle or goes on to msg.edit.
ScheduledTaskStarts ==
    /\ scheduled # <<>>
    /\ scheduled' = Tail(scheduled)
    /\ IF /\ Head(scheduled).current < Head(scheduled).total
          /\ now - last_update_time_list < UpdateInterval
       THEN UNCHANGED <<last_update_time_list, edits_made, last_edit_at>>
       ELSE /\ last_update_time_list' = now
            /\ edits_made' = edits_made + 1
            /\ last_edit_at' = now
    /\ UNCHANGED <<callback, quality, now, progress, reports, pc, result, proc,
                   returncode, output_file, reader, previous_size, lines_read,
                   forwards, success, estimated_progress, msg>>
    /\ UNCHANGED <<clock, tasks, quiet_until>>
    /\ UNCHANGED <<selVars, estVars, httpVars, nameVars, botVars, splitVars>>

\* A second passes.
Tick ==
    /\ clock < MaxClock
    /\ clock' = clock + 1
    /\ UNCHANGED <<tasks, last_update_time_list, edits_made, last_edit_at, quiet_until,
                   notEditVars>>

(* ---------------- VideoDownloader._get_url_based_filename --------------- *)
(* A text is the sequence of its characters, of which the model tells apart *)
(* the letters "a", "e", "n", the digit "1", "-", "?", "#", ":" and ".".    *)

\* [a-zA-Z]
Letters == {"a", "e", "n"}

\* re.match(r"^[a-zA-Z]+-\d+-[a-zA-Z0-9-]+$", s)
MatchesShape(s) ==
    \E i \in 1..Len(s) : \E j \in (i + 2)..(Len(s) - 2) :
        /\ \A k \in 1..i : s[k] \in Letters
        /\ s[i + 1] = "-"
        /\ \A k \in (i + 2)..j : s[k] = "1"
        /\ s[j + 1] = "-"
        /\ \A k \in (j + 2)..Len(s) : s[k] \in Letters \cup {"1", "-"}

\* s.split("?")[0].split("#")[0]
BeforeMark(s) ==
    LET marks == {i \in 1..Len(s) : s[i] \in {"?", "#"}}
    IN  IF marks = {} THEN s
        ELSE SubSeq(s, 1, (CHOOSE i \in marks : \A k \in marks : i <= k) - 1)

\* self.url.rstrip("/").split("/")
RStrip(parts) ==
    LET kept == {i \in 1..Len(parts) : parts[i] # <<>>}
    IN  IF kept = {} THEN << <<>> >>
        ELSE SubSeq(parts, 1, CHOOSE i \in kept : \A k \in kept : k <= i)

\* f"video_{int(time.time())}"
TimestampName == <<"video_">>

\* _get_url_based_filename: the last part of the URL, or the first match of
\* the search over the whole URL (a match starts after a "/" and ends at a
\* "/", "?", "#" or at the end), or the timestamp name.
UrlBasedFilename(parts) ==
    LET clean == RStrip(parts)
        last_part == clean[Len(clean)]
        found == {i \in 2..Len(parts) : MatchesShape(BeforeMark(parts[i]))}
    IN  IF Len(clean) >= 2 /\ MatchesShape(BeforeMark(last_part))
        THEN BeforeMark(last_part)
        ELSE IF /\ Len(clean) >= 3
                /\ clean[Len(clean) - 1] \in {<<"e", "n">>}
                /\ MatchesShape(last_part)
        THEN last_part
        ELSE IF found # {}
        THEN BeforeMark(parts[CHOOSE i \in found : \A k \in found : i <= k])
        ELSE TimestampName

\* The name taken from the URL whenever the URL has one.
FileNameUrlFirst(custom, parts) ==
    IF UrlBasedFilename(parts) # TimestampName THEN UrlBasedFilename(parts)
    ELSE IF custom # <<>> THEN custom
    ELSE TimestampName

\* self.custom_file_name or self._get_url_based_filename()
FileName(custom, parts) ==
    IF custom # <<>> THEN custom ELSE UrlBasedFilename(parts)

\* The line of download() that derives file_name.
DeriveFileName ==
    /\ file_name = <<>>
    /\ file_name' = FileName(custom_file_name, url)
    /\ UNCHANGED <<url, custom_file_name, jobVars, selVars, estVars, httpVars, editVars,
                   botVars, splitVars>>

\* The URLs: a scheme and a host, followed by one path component of up to
\* MaxPart characters, or by two of a few components, with or without a "/"
\* at the end.
Urls ==
    LET host == << <<"a", ":">>, <<>>, <<"a", ".", "a">> >>
        slug == <<"a", "-", "1", "-", "a">>
        any == UNION {[1..n -> {"a", "1", "-", "?"}] : n \in 0..MaxPart}
        few == {slug, slug \o <<"#", "a">>, <<"n", "-", "1", "-", "1", "-">>,
                <<"e", "n">>, <<"a", "-", "1">>, <<"a", ".", "a">>}
        paths == {<<c>> : c \in any} \cup {<<c, d>> : c \in few, d \in few}
    IN  {host \o path : path \in paths} \cup {host \o path \o << <<>> >> : path \in paths}

(* ------------------- plugins: nsfw.quality_callback -------------------- *)

\* quality_callback from the button press to the start of the external tool:
\* the link is cache[reply_to_message.id] whatever button was pressed, and the
\* tool writes {output_dir}/{file_name}.mp4 (a file_name made from the time
\* carries the second it was made in).
Press(j) ==
    /\ jobs[j].pc = "idle"
    /\ jobs' = [jobs EXCEPT ![j] =
                   [pc |-> "tool",
                    path |-> [name |-> FileName(<<>>, url),
                              stamp |-> IF FileName(<<>>, url) = TimestampName
                                        THEN clock ELSE 0]]]
    /\ UNCHANGED <<default_list, throttled, TASKS, evals>>
    /\ UNCHANGED <<jobVars, selVars, estVars, httpVars, editVars, nameVars, splitVars>>

\* The external tool of job j exits and missav_dl returns: with success the
\* upload begins, without it quality_callback ends.
ToolExits(j) ==
    /\ jobs[j].pc = "tool"
    /\ \E ok \in BOOLEAN :
          jobs' = [jobs EXCEPT ![j].pc = IF ok THEN "upload" ELSE "failed"]
    /\ UNCHANGED <<default_list, throttled, TASKS, evals>>
    /\ UNCHANGED <<jobVars, selVars, estVars, httpVars, editVars, nameVars, splitVars>>

\* The upload of job j calls progress_func with the progress_args of
\* quality_callback, which give no last_update_time: the throttle reads and
\* writes the default list.  final: current = total.
UploadProgress(j) ==
    /\ jobs[j].pc = "upload"
    /\ \E final \in BOOLEAN :
          IF ~final /\ clock - default_list.time < UpdateInterval
          THEN /\ throttled' = [job |-> j, by |-> default_list.by]
               /\ UNCHANGED default_list
          ELSE /\ default_list' = [time |-> clock, by |-> j]
               /\ UNCHANGED throttled
    /\ UNCHANGED <<jobs, TASKS, evals>>
    /\ UNCHANGED <<jobVars, selVars, estVars, httpVars, editVars, nameVars, splitVars>>

\* await path.unlink(missing_ok=True) of job j, after its upload.
Cleanup(j) ==
    /\ jobs[j].pc = "upload"
    /\ jobs' = [jobs EXCEPT ![j].pc = "cleaned"]
    /\ UNCHANGED <<default_list, throttled, TASKS, evals>>
    /\ UNCHANGED <<jobVars, selVars, estVars, httpVars, editVars, nameVars, splitVars>>

(* --------------------------- plugins: debug ---------------------------- *)

\* evaluate_handler or the rerun branch of evaluate_handler_ up to await
\* task: the task is created and TASKS[_id_] is set to it.
Evaluate(h) ==
    /\ evals[h] = "idle"
    /\ evals' = [evals EXCEPT ![h] = "running"]
    /\ TASKS' = h
    /\ UNCHANGED <<jobs, default_list, throttled>>
    /\ UNCHANGED <<jobVars, selVars, estVars, httpVars, editVars, nameVars, splitVars>>

\* The evaluation of handler h ends, await task returns or raises, and the
\* finally clause pops TASKS[_id_].
TaskEnds(h) ==
    /\ evals[h] = "running"
    /\ evals' = [evals EXCEPT ![h] = "done"]
    /\ TASKS' = None
    /\ UNCHANGED <<jobs, default_list, throttled>>
    /\ UNCHANGED <<jobVars, selVars, estVars, httpVars, editVars, nameVars, splitVars>>

\* The abort branch: cancel_task(task_id) cancels the task TASKS maps the id
\* to, unless there is none or it is done.
Abort ==
    /\ TASKS # None
    /\ evals[TASKS] = "running"
    /\ evals' = [evals EXCEPT ![TASKS] = "cancelled"]
    /\ UNCHANGED <<jobs, default_list, throttled, TASKS>>
    /\ UNCHANGED <<jobVars, selVars, estVars, httpVars, editVars, nameVars, splitVars>>

\* The handler of a cancelled evaluation: await edit_text("Process
\* Cancelled!") is over and the finally clause pops TASKS[_id_].
CancelReported(h) ==
    /\ evals[h] = "cancelled"
    /\ evals' = [evals EXCEPT ![h] = "done"]
    /\ TASKS' = None
    /\ UNCHANGED <<jobs, default_list, throttled>>
    /\ UNCHANGED <<jobVars, selVars, estVars, httpVars, editVars, nameVars, splitVars>>

(* ------------------ video_tools.split_video_by_size -------------------- *)

\* No part would ever be found too large.
OversizedNever(ps) == FALSE

\* Some part on disk is larger than max_size_bytes.
Oversized(ps) ==
    \E i \in 1..Len(ps) : ps[i].file # Missing /\ ps[i].file > MaxSizeBytes

\* num_segments: math.ceil(file_size / max_size_bytes), one more when
\* file_size / num_segments > 0.9 * max_size_bytes.  For sizes below 2^53
\* the floating-point quotients compare as the exact ones do.
NumSegments(size) ==
    LET n == (size + MaxSizeBytes - 1) \div MaxSizeBytes
    IN  IF size * 10 > 9 * MaxSizeBytes * n THEN n + 1 ELSE n

\* One call of split_video_by_size up to its first await that other code can
\* follow: the copy to one part (cp succeeds or not), or get_video_info
\* (which may raise) and the creation of the split tasks.
SplitCalled ==
    /\ split_pc = "called"
    /\ split_calls < MaxCalls
    /\ split_calls' = split_calls + 1
    /\ \E ok \in BOOLEAN :
          IF ~ok
          THEN /\ split_pc' = "raised_early"
               /\ UNCHANGED <<num_segments, output_files>>
          ELSE IF file_size <= MaxSizeBytes
          THEN /\ split_pc' = "returned"
               /\ output_files' = <<[proc |-> "ok", opened |-> TRUE, file |-> file_size]>>
               /\ UNCHANGED num_segments
          ELSE /\ split_pc' = "gather"
               /\ num_segments' = NumSegments(file_size)
               /\ output_files' = [i \in 1..NumSegments(file_size) |->
                               [proc |-> "running", opened |-> FALSE, file |-> Missing]]
    /\ UNCHANGED file_size
    /\ UNCHANGED <<jobVars, selVars, estVars, httpVars, editVars, nameVars, botVars>>

\* The split subprocess of part i opens its output file (-y: it is created
\* or truncated).
PartOpens(i) ==
    /\ i \in 1..Len(output_files)
    /\ output_files[i].proc = "running"
    /\ ~output_files[i].opened
    /\ output_files' = [output_files EXCEPT ![i].opened = TRUE, ![i].file = 0]
    /\ UNCHANGED <<file_size, split_pc, num_segments, split_calls>>
    /\ UNCHANGED <<jobVars, selVars, estVars, httpVars, editVars, nameVars, botVars>>

\* The split subprocess of part i exits: with status 0, having written its
\* part (to the removed file if the file was removed after it was opened), or
\* with another status, leaving what it wrote.
PartExits(i) ==
    /\ i \in 1..Len(output_files)
    /\ output_files[i].proc = "running"
    /\ \/ \E size \in {1, MaxSizeBytes, MaxSizeBytes + 1} :
             output_files' = [output_files EXCEPT ![i].proc = "ok",
                                    ![i].opened = TRUE,
                                    ![i].file = IF output_files[i].opened /\ @ = Missing
                                                THEN Missing ELSE size]
       \/ output_files' = [output_files EXCEPT ![i].proc = "failed"]
    /\ UNCHANGED <<file_size, split_pc, num_segments, split_calls>>
    /\ UNCHANGED <<jobVars, selVars, estVars, httpVars, editVars, nameVars, botVars>>

\* await asyncio.gather(*tasks) raises, a split_segment having raised: the
\* except clause removes the output files that exist and raises RuntimeError.
GatherRaises ==
    /\ split_pc = "gather"
    /\ \E i \in 1..Len(output_files) : output_files[i].proc = "failed"
    /\ output_files' = [i \in 1..Len(output_files) |-> [output_files[i] EXCEPT !.file = Missing]]
    /\ split_pc' = "raised"
    /\ UNCHANGED <<file_size, num_segments, split_calls>>
    /\ UNCHANGED <<jobVars, selVars, estVars, httpVars, editVars, nameVars, botVars>>

\* await asyncio.gather(*tasks) returns: the parts are checked; with one too
\* large all are removed and split_video_by_size is called again with the
\* same arguments, else the paths are returned.
GatherReturns ==
    /\ split_pc = "gather"
    /\ \A i \in 1..Len(output_files) : output_files[i].proc = "ok"
    /\ IF Oversized(output_files)
       THEN /\ output_files' = [i \in 1..Len(output_files) |-> [output_files[i] EXCEPT !.file = Missing]]
            /\ split_pc' = "called"
       ELSE /\ split_pc' = "returned"
            /\ UNCHANGED output_files
    /\ UNCHANGED <<file_size, num_segments, split_calls>>
    /\ UNCHANGED <<jobVars, selVars, estVars, httpVars, editVars, nameVars, botVars>>

(* --------------------------- specifications --------------------------- *)

JobIdle ==
    /\ now = StartTime
    /\ progress = ProgressTrackerInit
    /\ reports = <<>>
    /\ pc = "init"
    /\ result = "none"
    /\ proc = "none"
    /\ returncode = 0
    /\ output_file = Missing
    /\ reader = "none"
    /\ previous_size = 0
    /\ lines_read = 0
    /\ forwards = <<>>
    /\ success = "none"
    /\ estimated_progress = NoEstimate
    /\ scheduled = <<>>

EstimateIdle ==
    /\ est_pc = "load"
    /\ sample_indices = <<>>
    /\ sampled = 0
    /\ attempt = 0
    /\ total_size = 0
    /\ successful_samples = 0
    /\ heads = 0
    /\ estimate = [kind |-> "unset", total_bytes |-> 0]

HttpIdle ==
    /\ http_pc = "called"
    /\ http_attempt = 0
    /\ http_log = <<>>
    /\ http_result = [kind |-> "unset", attempt |-> 0]

NameIdle ==
    /\ url = << <<>> >>
    /\ custom_file_name = <<>>
    /\ file_name = <<>>

PluginsIdle ==
    /\ jobs = [j \in 1..MaxJobs |-> [pc |-> "idle", path |-> [name |-> <<>>, stamp |-> 0]]]
    /\ default_list = [time |-> 0, by |-> 0]
    /\ throttled = [job |-> 0, by |-> 0]
    /\ TASKS = None
    /\ evals = [h \in 1..MaxEvals |-> "idle"]
    /\ split_pc = "called"
    /\ num_segments = 0
    /\ split_calls = 0
    /\ output_files = <<>>

EditIdle ==
    /\ clock = StartTime
    /\ tasks = [i \in 1..MaxTasks |-> NoTask]
    /\ last_update_time_list = 0
    /\ edits_made = 0
    /\ last_edit_at = 0
    /\ quiet_until = 0

\* One download job: a VideoDownloader just constructed.
Init ==
    /\ PluginsIdle
    /\ file_size = 0
    /\ callback \in BOOLEAN
    /\ quality \in JobQualities
    /\ JobIdle
    /\ msg = FALSE
    /\ manifest = "variant"
    /\ variants = <<>>
    /\ selected = Unset
    /\ EstimateIdle
    /\ segments = <<>>
    /\ HttpIdle
    /\ retries = Retries
    /\ EditIdle
    /\ NameIdle

Next ==
    \/ Start
    \/ PageFetched
    \/ PlaylistProcessed
    \/ Spawn
    \/ ProcessExits
    \/ ReaderLine
    \/ ReaderEOF
    \/ ReaderCrash
    \/ WaitReturns
    \/ Join

Spec == Init /\ [][Next]_vars

\* One download job without a callback, as missav_dl runs it, whose task may
\* be cancelled.
InitCancel ==
    /\ Init
    /\ callback = FALSE

NextCancel ==
    \/ Next
    \/ Cancel

SpecCancel == InitCancel /\ [][NextCancel]_vars

\* One download job as missav_dl runs it: the tracker bound to a chat message
\* and without a callback, with the progress_func tasks it creates.
InitMsg ==
    /\ PluginsIdle
    /\ file_size = 0
    /\ callback = FALSE
    /\ msg = TRUE
    /\ quality \in JobQualities
    /\ JobIdle
    /\ manifest = "variant"
    /\ variants = <<>>
    /\ selected = Unset
    /\ EstimateIdle
    /\ segments = <<>>
    /\ HttpIdle
    /\ retries = Retries
    /\ EditIdle
    /\ NameIdle

NextMsg ==
    \/ Next
    \/ ScheduledTaskStarts

SpecMsg == InitMsg /\ [][NextMsg]_vars

\* Variant selection alone, on every manifest and quality within the bounds;
\* a playlist that is not a variant playlist has no variants.
InitSelect ==
    /\ PluginsIdle
    /\ file_size = 0
    /\ callback = FALSE
    /\ quality \in Qualities
    /\ JobIdle
    /\ msg = FALSE
    /\ manifest \in ManifestKinds
    /\ variants \in IF manifest = "variant" THEN {Playlists(m) : m \in Manifests}
                    ELSE {<<>>}
    /\ selected = Unset
    /\ EstimateIdle
    /\ segments = <<>>
    /\ HttpIdle
    /\ retries = Retries
    /\ EditIdle
    /\ NameIdle

NextSelect == SelectVariant

SpecSelect == InitSelect /\ [][NextSelect]_vars

\* The size estimation alone, on every media manifest and quality within the
\* bounds.
InitEstimate ==
    /\ PluginsIdle
    /\ file_size = 0
    /\ callback = FALSE
    /\ quality \in EstimateQualities
    /\ JobIdle
    /\ msg = FALSE
    /\ manifest = "variant"
    /\ variants = <<>>
    /\ selected = Unset
    /\ EstimateIdle
    /\ segments \in SegmentLists
    /\ HttpIdle
    /\ retries = Retries
    /\ EditIdle
    /\ NameIdle

NextEstimate ==
    \/ LoadSegments
    \/ HeadAnswered
    \/ HeadFailed
    \/ TotalAdjusted

SpecEstimate == InitEstimate /\ [][NextEstimate]_vars

\* One call of _http_get, for every number of retries within the bound.
InitHttp ==
    /\ PluginsIdle
    /\ file_size = 0
    /\ callback = FALSE
    /\ quality = "lowest"
    /\ JobIdle
    /\ msg = FALSE
    /\ manifest = "variant"
    /\ variants = <<>>
    /\ selected = Unset
    /\ EstimateIdle
    /\ segments = <<>>
    /\ HttpIdle
    /\ retries \in 0..MaxRetries
    /\ EditIdle
    /\ NameIdle

NextHttp ==
    \/ HttpGetCalled
    \/ HttpRequestDone
    \/ HttpSleepDone

SpecHttp == InitHttp /\ [][NextHttp]_vars

\* The progress_func tasks of one tracker bound to a chat message.
InitEdit ==
    /\ PluginsIdle
    /\ file_size = 0
    /\ callback = FALSE
    /\ quality = "lowest"
    /\ JobIdle
    /\ msg = FALSE
    /\ manifest = "variant"
    /\ variants = <<>>
    /\ selected = Unset
    /\ EstimateIdle
    /\ segments = <<>>
    /\ HttpIdle
    /\ retries = Retries
    /\ EditIdle
    /\ NameIdle

NextEdit ==
    \/ CreateTask
    \/ \E i \in 1..MaxTasks : ProgressStarts(i)
    \/ \E i \in 1..MaxTasks : EditAnswered(i)
    \/ \E i \in 1..MaxTasks : ErrorEditAnswered(i)
    \/ \E i \in 1..MaxTasks : SleepOver(i)
    \/ Tick

SpecEdit == InitEdit /\ [][NextEdit]_vars

\* The derivation of the file name alone, on every URL within the bounds,
\* without and with a custom file name.
InitName ==
    /\ PluginsIdle
    /\ file_size = 0
    /\ callback = FALSE
    /\ quality = "lowest"
    /\ JobIdle
    /\ msg = FALSE
    /\ manifest = "variant"
    /\ variants = <<>>
    /\ selected = Unset
    /\ EstimateIdle
    /\ segments = <<>>
    /\ HttpIdle
    /\ retries = Retries
    /\ EditIdle
    /\ url \in Urls
    /\ custom_file_name \in {<<>>, <<"n">>}
    /\ file_name = <<>>

SpecName == InitName /\ [][DeriveFileName]_vars

\* The handlers of the plugins on one event loop: quality-button presses for
\* one cached link (with and without a name in it), their uploads, and the
\* evaluations of one chat/message id.
InitBot ==
    /\ PluginsIdle
    /\ file_size = 0
    /\ callback = FALSE
    /\ quality = "lowest"
    /\ JobIdle
    /\ msg = FALSE
    /\ manifest = "variant"
    /\ variants = <<>>
    /\ selected = Unset
    /\ EstimateIdle
    /\ segments = <<>>
    /\ HttpIdle
    /\ retries = Retries
    /\ EditIdle
    /\ url \in {<< <<"a", ":">>, <<>>, <<"a", ".", "a">>, last >> :
                   last \in {<<"a", "-", "1", "-", "a">>, <<"a", "-", "1">>}}
    /\ custom_file_name = <<>>
    /\ file_name = <<>>

NextBot ==
    \/ \E j \in 1..MaxJobs : Press(j)
    \/ \E j \in 1..MaxJobs : ToolExits(j)
    \/ \E j \in 1..MaxJobs : UploadProgress(j)
    \/ \E j \in 1..MaxJobs : Cleanup(j)
    \/ \E h \in 1..MaxEvals : Evaluate(h)
    \/ \E h \in 1..MaxEvals : TaskEnds(h)
    \/ Abort
    \/ \E h \in 1..MaxEvals : CancelReported(h)
    \/ Tick

SpecBot == InitBot /\ [][NextBot]_vars

\* split_video_by_size on an input file of every size within the bound.
InitSplit ==
    /\ PluginsIdle
    /\ file_size \in 0..MaxFileSize
    /\ callback = FALSE
    /\ quality = "lowest"
    /\ JobIdle
    /\ msg = FALSE
    /\ manifest = "variant"
    /\ variants = <<>>
    /\ selected = Unset
    /\ EstimateIdle
    /\ segments = <<>>
    /\ HttpIdle
    /\ retries = Retries
    /\ EditIdle
    /\ NameIdle

NextSplit ==
    \/ SplitCalled
    \/ \E i \in 1..(MaxFileSize \div MaxSizeBytes + 2) : PartOpens(i)
    \/ \E i \in 1..(MaxFileSize \div MaxSizeBytes + 2) : PartExits(i)
    \/ GatherRaises
    \/ GatherReturns

SpecSplit == InitSplit /\ [][NextSplit]_vars

(* ------------------------------- claims ------------------------------- *)

LastReport == reports[Len(reports)]

\* The dispatch of a completed transfer: the completed label at 100%.
IsFinalReport(r) ==
    r.status = "Download completed" /\ r.completed_bytes = r.total_bytes

\* C1: within one download job completed_bytes never decreases, whether an
\* executor delta or the orchestrator's correction to the real file size
\* changes it.
C1_CompletedBytesNeverDecrease ==
    [][progress'.completed_bytes >= progress.completed_bytes]_vars

\* C2: when download() has returned success, the last report dispatched to the
\* observers carries the completed label with completed_bytes = total_bytes.
C2_FinalDispatchAlwaysMade ==
    result = "ok" => reports # <<>> /\ IsFinalReport(LastReport)

\* C3: apart from the final 100% dispatch, two consecutive dispatches are at
\* least update_interval seconds apart, whichever mutator made them.
C3_DispatchesThrottled ==
    \A i \in 2..Len(reports) :
        ~IsFinalReport(reports[i])
            => reports[i].time - reports[i - 1].time >= UpdateInterval

\* C4: every percentage reported to an observer lies in [0, 100] (here in
\* hundredths of a percent).
C4_PercentageInRange ==
    \A i \in 1..Len(reports) : reports[i].percentage \in 0..10000

RECURSIVE SumDeltas(_)
SumDeltas(fs) == IF fs = <<>> THEN 0 ELSE Head(fs).delta + SumDeltas(Tail(fs))

\* C5: of the cumulative readings parsed from size= and bytes= lines, every
\* delta forwarded is strictly positive, a reading not above the largest one
\* seen before forwards nothing, and the deltas forwarded add up to the
\* largest reading seen.
C5_ForwardedDeltasMatchReadings ==
    /\ \A i \in 1..Len(forwards) :
          /\ forwards[i].forwarded => forwards[i].delta > 0
          /\ forwards[i].reading <= forwards[i].prev_max => ~forwards[i].forwarded
    /\ SumDeltas(forwards) = MaxForwarded

\* C6: the executor returns True only after the reader task and the wait for
\* the process have both finished, and exactly when the exit status is zero
\* and the output file exists with a nonzero size; otherwise it returns False.
C6_ExecutorSuccessAfterBothFinish ==
    success # "none" =>
        (success = "true" <=>
            /\ reader = "done"
            /\ proc = "exited"
            /\ returncode = 0
            /\ output_file # Missing
            /\ output_file > 0)

C6_Witness ==
    success = "true" /\ lines_read > 0 /\ progress.completed_bytes > 0

\* C7: no exception escapes download(): every failure of a stage or of an
\* observer ends in the return value (False, None).
C7_NoExceptionEscapes ==
    pc = "done" => result \in {"ok", "fail"}

\* C8: whenever download() returns (True, path), total_bytes and
\* completed_bytes both equal the real size of the output file, that size is
\* greater than zero and the status is the completed label.
C8_SuccessMeansCorrectedTotals ==
    result = "ok" =>
        /\ output_file > 0
        /\ progress.total_bytes = output_file
        /\ progress.completed_bytes = output_file
        /\ progress.status = "Download completed"

C8_Witness ==
    result = "ok" /\ MaxForwarded > output_file

\* The variants whose bandwidth is below, or not above, that of the variant
\* with URI u.
BandwidthOf(u) == variants[u].bandwidth
NumBelow(u) ==
    Cardinality({i \in 1..Len(variants) : variants[i].bandwidth < BandwidthOf(u)})
NumNotAbove(u) ==
    Cardinality({i \in 1..Len(variants) : variants[i].bandwidth <= BandwidthOf(u)})

\* The index the quality resolution rule gives among n variants; qualities are
\* compared without regard to case, as the code lowercases them.
RuleIndex(q, n) ==
    LET medium == IF n >= 3 THEN n \div 2 ELSE n - 1
    IN  CASE Lower(q) = "lowest" -> 0
          [] Lower(q) = "high" -> n - 1
          [] Lower(q) = "medium" -> medium
          [] OTHER -> medium

\* C9: with N >= 1 variants sorted by bandwidth ascending, the selected
\* variant stands at index 0 for "lowest", N-1 for "high", N div 2 (N >= 3)
\* or N-1 (N <= 2) for "medium", and at the index of "medium" for any other
\* quality: its bandwidth is the one found at that index.
C9_SelectedIndexFollowsRule ==
    (selected # Unset /\ variants # <<>>) =>
        /\ selected \in 1..Len(variants)
        /\ NumBelow(selected) <= RuleIndex(quality, Len(variants))
        /\ RuleIndex(quality, Len(variants)) < NumNotAbove(selected)

C9_Witness ==
    /\ selected # Unset
    /\ Len(variants) >= 3
    /\ quality = "medium"
    /\ variants[1].bandwidth > variants[2].bandwidth

\* C10: with at least one variant the selection returns the URI of one of
\* the manifest's variants, and with exactly one variant it returns that
\* variant's URI whatever the quality.
C10_SelectedIsAVariant ==
    (selected # Unset /\ variants # <<>>) =>
        /\ \E i \in 1..Len(variants) : selected = variants[i].uri
        /\ Len(variants) = 1 => selected = variants[1].uri

C10_Witness ==
    selected # Unset /\ Len(variants) = 1 /\ quality = "best"

AllHaveByteRange == \A i \in 1..Len(segments) : segments[i] # NoByteRange

\* The length a byte range "length@offset" gives.
RangeLength(byterange) == byterange[1]

RECURSIVE SumRangeLengths(_)
SumRangeLengths(segs) ==
    IF segs = <<>> THEN 0 ELSE RangeLength(Head(segs)) + SumRangeLengths(Tail(segs))

\* C11: when every segment of the media manifest has a byte range, the
\* estimation returns the exact sum of the byte-range lengths and has issued
\* no HEAD request.
C11_ByteRangeSumExact ==
    (est_pc = "done" /\ AllHaveByteRange) =>
        /\ estimate.kind = "ok"
        /\ estimate.total_bytes = SumRangeLengths(segments)
        /\ heads = 0

\* C12: when not every segment has a byte range and at least one sample
\* probe has succeeded, the estimate is the integer part of (sum of the
\* sizes probed / number of successful probes) x number of segments.
C12_SampledAverageEstimate ==
    (est_pc = "done" /\ ~AllHaveByteRange /\ successful_samples > 0) =>
        /\ estimate.kind = "ok"
        /\ estimate.total_bytes = (total_size * Len(segments)) \div successful_samples

\* The per-segment size the fallback rule names; qualities are compared
\* without regard to case, as the code lowercases them.
RuleFallbackSize(q) ==
    CASE Lower(q) = "lowest" -> 524288
      [] Lower(q) = "medium" -> 1048576
      [] Lower(q) = "high" -> 2097152
      [] OTHER -> 1048576

\* C13: when not every segment has a byte range and no sample probe has
\* succeeded, the estimation still returns an estimate: the number of
\* segments times 524288 for "lowest", 1048576 for "medium", 2097152 for
\* "high" and 1048576 for any other quality.
C13_FallbackEstimate ==
    (est_pc = "done" /\ ~AllHaveByteRange /\ successful_samples = 0) =>
        /\ estimate.kind = "ok"
        /\ estimate.total_bytes = Len(segments) * RuleFallbackSize(quality)

C13_Witness ==
    /\ est_pc = "done"
    /\ quality = "best"
    /\ Len(segments) > SampleCount(quality)
    /\ successful_samples = 0
    /\ heads = Retries * SampleCount(quality)

Requests == {i \in 1..Len(http_log) : http_log[i].kind = "request"}
Sleeps == {i \in 1..Len(http_log) : http_log[i].kind = "sleep"}
Failed(i) == http_log[i].value = TransportError \/ http_log[i].value >= 400

\* C14: _http_get issues at most `retries` requests; it returns the body of
\* the first response with a status below 400 and issues no request after
\* it; every failed attempt (status >= 400 or transport error) is followed
\* by a sleep of `delay` seconds; after `retries` failed attempts it returns
\* None; it never raises.
C14_HttpGetRetries ==
    /\ Cardinality(Requests) <= retries
    /\ \A i \in Requests :
          IF Failed(i)
          THEN IF i = Len(http_log) THEN http_pc = "sleep"
               ELSE http_log[i + 1] = [kind |-> "sleep", value |-> Delay]
          ELSE /\ i = Len(http_log)
               /\ http_pc = "returned"
               /\ http_result = [kind |-> "content", attempt |-> Cardinality(Requests)]
    /\ \A i \in Sleeps : i > 1 /\ (i - 1) \in Requests /\ Failed(i - 1)
    /\ http_pc = "returned" =>
          /\ http_result.kind \in {"content", "none"}
          /\ http_result.kind = "none" <=>
                /\ Cardinality(Requests) = retries
                /\ \A i \in Requests : Failed(i)
                /\ Cardinality(Sleeps) = retries

C14_Witness ==
    /\ http_pc = "returned"
    /\ retries = MaxRetries
    /\ Cardinality(Requests) = MaxRetries
    /\ http_result.kind = "content"

\* The labels download() writes when a stage has failed.
FailureLabels ==
    {"Failed to fetch page content", "Failed to extract video information",
     "Failed to process playlist", "Download failed", "Error"}

\* C15: when download() has returned a failure, the last report dispatched
\* to the observers carries the failure label last written to the tracker:
\* the throttle never keeps that label back.
C15_FailureLabelReported ==
    result = "fail" =>
        /\ progress.status \in FailureLabels
        /\ reports # <<>>
        /\ LastReport.status = progress.status

\* The stages of download() in their order, as the places download() passes.
PipelineOrder ==
    {<<"init", "fetch_page">>, <<"fetch_page", "playlist">>, <<"playlist", "spawn">>,
     <<"spawn", "wait">>, <<"wait", "join">>, <<"join", "done">>}

\* The labels that name the stage download() stood at when it failed.
StageLabels(at) ==
    CASE at = "fetch_page" ->
            {"Failed to fetch page content", "Failed to extract video information"}
      [] at = "playlist" -> {"Failed to process playlist"}
      [] at \in {"spawn", "join"} -> {"Download failed"}
      [] OTHER -> {}

\* The stages are passed in order, the tool is launched from the last stage
\* alone, and after a failure nothing of a later stage has run.
StagesInOrder ==
    /\ [](pc = "done" /\ success = "none" => proc = "none" /\ reader = "none")
    /\ [][/\ pc' # pc => (<<pc, pc'>> \in PipelineOrder \/ (pc' = "done" /\ result' # "ok"))
          /\ (proc = "none" /\ proc' # "none") => (pc = "spawn" /\ result = "none")
          /\ pc = "done" => pc' = "done"]_vars

\* C20 as stated: download() runs its stages strictly in order, the tool is
\* launched only after all earlier stages succeeded, once a stage fails no
\* later stage is executed, and the status label names the failed stage.
C20_LabelNamesFailedStage ==
    /\ StagesInOrder
    /\ [][(pc # "done" /\ pc' = "done" /\ result' # "ok")
             => progress'.status \in StageLabels(pc)]_vars

\* C20 amended: as above, but the status label names the failed stage or,
\* when the failure was an exception raised inside download(), it is the
\* "Error: <message>" label of the except clause.
C20_LabelNamesStageOrError ==
    /\ StagesInOrder
    /\ [][(pc # "done" /\ pc' = "done" /\ result' # "ok")
             => progress'.status \in StageLabels(pc) \cup {"Error"}]_vars

C20_Witness ==
    /\ ~callback
    /\ pc = "done"
    /\ result = "fail"
    /\ progress.status = "Error"
    /\ proc = "none"

Elapsed(r) == r.time - StartTime

\* C16 as stated: the ETA and the speed of every report are 0 whenever the
\* elapsed time is 0 or total_bytes is 0 (and the report is made: no error).
C16_EtaAndSpeedZero ==
    \A i \in 1..Len(reports) :
        (Elapsed(reports[i]) = 0 \/ reports[i].total_bytes = 0)
            => reports[i].eta = 0 /\ reports[i].speed = 0

\* C16 amended: the ETA of a report is 0 whenever the elapsed time is 0 or
\* total_bytes is 0; the speed is 0 whenever the elapsed time is 0, and with
\* total_bytes = 0 and time elapsed it is completed_bytes / elapsed, rounded
\* to hundredths; no division by zero takes place.
C16_EtaZeroSpeedZeroAtStart ==
    \A i \in 1..Len(reports) :
        LET r == reports[i]
        IN  /\ (Elapsed(r) = 0 \/ r.total_bytes = 0) => r.eta = 0
            /\ Elapsed(r) = 0 => r.speed = 0
            /\ (r.total_bytes = 0 /\ Elapsed(r) > 0) =>
                  /\ r.speed >= 0
                  /\ 2 * (r.speed * Elapsed(r) - r.completed_bytes * 100) \in
                        (0 - Elapsed(r))..Elapsed(r)

C16_Witness ==
    \E i \in 1..Len(reports) :
        /\ reports[i].total_bytes = 0
        /\ Elapsed(reports[i]) > 0
        /\ reports[i].completed_bytes > 0
        /\ reports[i].eta = 0
        /\ reports[i].speed > 0

\* C17: once the task running download() has been cancelled, the external
\* tool is not running any more and the reader task neither runs nor
\* changes the tracker.
C17_CancelTerminatesTool ==
    /\ [](result = "cancelled" => proc # "running" /\ reader # "reading")
    /\ [][result = "cancelled" => progress' = progress /\ reports' = reports]_vars

\* C18: two calls of msg.edit made by progress_func are never less than
\* update_interval seconds apart, whatever current and total are.
C18_EditsThrottled ==
    [][(edits_made' > edits_made /\ edits_made > 0)
          => last_edit_at' - last_edit_at >= UpdateInterval]_vars

\* C19: after the chat surface has answered an edit with a FloodWait of d
\* seconds, no task of the tracker calls msg.edit before the d seconds have
\* passed.
C19_NoEditDuringFloodWait ==
    [][edits_made' > edits_made => last_edit_at' >= quiet_until]_vars

\* The executor has returned False after both awaits, the reader having ended
\* at the end of the stream: the tool exited with a nonzero status, or with
\* status zero and no output file or an empty one.
ExitedNonzero ==
    pc = "done" /\ success = "false" /\ reader = "done" /\ returncode # 0
ExitedWithoutOutput ==
    /\ pc = "done" /\ success = "false" /\ reader = "done"
    /\ returncode = 0 /\ output_file \in {Missing, 0}

\* What a caller and an observer learn of a finished job: the return value of
\* download() and the status label of the tracker.
Outcome == <<result, progress.status>>

\* The outcomes of a job whose tool exited with status zero and left no output.
OutputMissingOutcomes == {<<"fail", "Download failed">>, <<"fail", "Error">>,
                          <<"raised", "Error">>}

\* C21: a nonzero exit of the tool and a zero exit with a missing or empty
\* output file are reported as failures that can be told apart: the outcome
\* of a job failed by a nonzero exit is none of the outcomes of a job failed
\* by a missing output, as it carries the exit code and the tail of the
\* tool's diagnostic output in its status.
C21_ExitFailuresDistinguishable ==
    /\ ExitedWithoutOutput => Outcome \in OutputMissingOutcomes
    /\ ExitedNonzero => Outcome \notin OutputMissingOutcomes

\* What _select_quality_variant returns for a variant manifest whose variant
\* list is empty.
EmptyListOutcome == SelectQualityVariant(<<>>, quality)

\* C22: a manifest that fails to parse or is not of variant type gives an
\* outcome other than the one of a variant manifest with an empty variant
\* list, so that a caller can tell a parse failure from an empty result.
C22_ManifestErrorsDistinct ==
    (selected # Unset /\ manifest \in {"malformed", "not_variant"})
        => selected # EmptyListOutcome

\* C23: a media manifest with no segment is not a failure of the estimation:
\* it returns the variant with a raw estimate of 0 bytes, and no HEAD request
\* has been issued.
C23_ZeroSegmentsGiveZero ==
    (est_pc = "done" /\ segments = <<>>) =>
        /\ estimate = [kind |-> "ok", total_bytes |-> 0]
        /\ heads = 0

C23_Witness ==
    est_pc = "done" /\ segments = <<>> /\ quality = "HIGH" /\ estimate.kind = "ok"

\* The multiplier the rule names, in tenths; qualities are compared without
\* regard to case, as the code lowercases them.
RuleMultiplier(q) ==
    CASE Lower(q) = "lowest" -> 10
      [] Lower(q) = "medium" -> 12
      [] Lower(q) = "high" -> 15
      [] OTHER -> 10

\* C24: the total written to the tracker before the transfer is the integer
\* part of raw estimate x multiplier, the multiplier being 1.0 for "lowest",
\* 1.2 for "medium", 1.5 for "high" and 1.0 for any other quality; the raw
\* estimate the manifest processing returned is not changed by it.
C24_AdjustedTotalWritten ==
    /\ [](est_pc = "adjusted" =>
            progress.total_bytes = (estimate.total_bytes * RuleMultiplier(quality)) \div 10)
    /\ [][est_pc = "done" => estimate' = estimate]_vars

C24_Witness ==
    /\ est_pc = "adjusted"
    /\ quality = "medium"
    /\ successful_samples > 0
    /\ estimate.total_bytes > 0
    /\ estimate.total_bytes % 5 = 0
    /\ progress.total_bytes > estimate.total_bytes

\* The slug-number-slug components of the URL: the parts between its "/",
\* without the query and the fragment, that have the shape.
Slugs == {BeforeMark(url[i]) : i \in {k \in 1..Len(url) : MatchesShape(BeforeMark(url[k]))}}

\* C25: the output file name is the explicit override when one is given;
\* otherwise a slug-number-slug component of the source URL when the URL
\* has one; otherwise the timestamp-based name.
C25_FileNamePriority ==
    file_name # <<>> =>
        IF custom_file_name # <<>> THEN file_name = custom_file_name
        ELSE IF Slugs # {} THEN file_name \in Slugs
        ELSE file_name = TimestampName

C25_Witness ==
    /\ file_name # <<>>
    /\ custom_file_name = <<>>
    /\ Len(url) = 6
    /\ MatchesShape(url[4])
    /\ ~MatchesShape(BeforeMark(url[5]))
    /\ file_name = url[4]

\* The samples a HEAD request has been made for: those whose call has
\* returned and the one whose call is running.
SamplesProbed == sampled + (IF attempt > 0 THEN 1 ELSE 0)

\* C26: during the sampled estimation each sample segment is probed with at
\* most one HEAD request: a sample whose probe fails is skipped, without a
\* second request for the same segment.
C26_OneProbePerSample ==
    /\ attempt <= 1
    /\ heads <= SamplesProbed

\* C27: with T >= 1 segments and S samples (3, 5 or 8 by quality) the
\* sample indices are min(S, T) in number, all within 0..T-1, strictly
\* increasing and so pairwise distinct, and for T > S the i-th of them,
\* counted from 0, is floor(i x T / S).
C27_SampleIndicesEvenlySpread ==
    (est_pc # "load" /\ ~AllHaveByteRange) =>
        LET T == Len(segments)
            S == SampleCount(quality)
            n == Len(sample_indices)
        IN  /\ T >= 1 /\ S \in {3, 5, 8}
            /\ n = IF S < T THEN S ELSE T
            /\ \A i \in 1..n : sample_indices[i] \in 0..(T - 1)
            /\ \A i \in 1..(n - 1) : sample_indices[i] < sample_indices[i + 1]
            /\ T > S => \A i \in 1..n : sample_indices[i] = ((i - 1) * T) \div S

C27_Witness ==
    /\ est_pc = "sampling"
    /\ quality = "HIGH"
    /\ Len(segments) = 15
    /\ sample_indices = <<0, 1, 3, 5, 7, 9, 11, 13>>

\* The places in the manifest of the variants of the lowest and of the highest
\* bandwidth.
TiedLowest ==
    {i \in 1..Len(variants) :
        \A k \in 1..Len(variants) : variants[i].bandwidth <= variants[k].bandwidth}
TiedHighest ==
    {i \in 1..Len(variants) :
        \A k \in 1..Len(variants) : variants[k].bandwidth <= variants[i].bandwidth}

\* C28: variants of equal bandwidth keep their manifest order after the
\* sort, so that "lowest" returns the first-listed variant of the lowest
\* bandwidth and "high" the last-listed variant of the highest bandwidth.
C28_TiesKeepManifestOrder ==
    (selected # Unset /\ variants # <<>>) =>
        LET sorted == SortedByBandwidth(variants)
        IN  /\ \A i \in 1..Len(sorted) : \A j \in (i + 1)..Len(sorted) :
                  /\ sorted[i].bandwidth <= sorted[j].bandwidth
                  /\ sorted[i].bandwidth = sorted[j].bandwidth
                        => sorted[i].uri < sorted[j].uri
            /\ Lower(quality) = "lowest" =>
                  selected = variants[CHOOSE i \in TiedLowest :
                                          \A k \in TiedLowest : i <= k].uri
            /\ Lower(quality) = "high" =>
                  selected = variants[CHOOSE i \in TiedHighest :
                                          \A k \in TiedHighest : k <= i].uri

C28_Witness ==
    /\ selected = 2
    /\ quality = "HIGH"
    /\ Len(variants) = 3
    /\ variants[1].bandwidth = variants[2].bandwidth
    /\ variants[2].bandwidth > variants[3].bandwidth

\* C29 as stated: a time= marker changes completed_bytes only if total_bytes
\* is above 0, more than 10 seconds have passed since the job started and
\* completed_bytes is below 10% of total_bytes; the delta it forwards is
\* positive and leaves completed_bytes at no more than 95% of total_bytes.
C29_TimeEstimatePositive ==
    estimated_progress.delta # NoMatch =>
        LET e == estimated_progress
        IN  /\ e.total_bytes > 0
            /\ e.elapsed > 10
            /\ e.completed_bytes * 10 < e.total_bytes
            /\ e.delta > 0
            /\ (e.completed_bytes + e.delta) * 100 <= 95 * e.total_bytes

\* C29 amended: as above, but the delta forwarded is positive or zero: it is
\* the integer part of the estimate's lead over completed_bytes, which is 0
\* when the estimate is ahead by less than one byte.
C29_TimeEstimateNotNegative ==
    estimated_progress.delta # NoMatch =>
        LET e == estimated_progress
        IN  /\ e.total_bytes > 0
            /\ e.elapsed > 10
            /\ e.completed_bytes * 10 < e.total_bytes
            /\ e.delta >= 0
            /\ (e.completed_bytes + e.delta) * 100 <= 95 * e.total_bytes

C29_Witness ==
    /\ estimated_progress.delta = 0
    /\ estimated_progress.total_bytes > 0
    /\ progress.status = "Downloading (estimated)"
    /\ progress.completed_bytes = 0

\* The labels download() writes last: the completed label and the labels of
\* a failure.
TerminalLabels == {"Download completed"} \cup FailureLabels

\* C30: once download() has written a terminal status to the tracker,
\* completed_bytes and total_bytes are not modified again, and the stderr
\* reader, awaited before the executor returned, is not running any more.
C30_NothingAfterTerminalStatus ==
    /\ [](progress.status \in TerminalLabels => (pc = "done" /\ reader # "reading"))
    /\ [][progress.status \in TerminalLabels
             => /\ progress'.completed_bytes = progress.completed_bytes
                /\ progress'.total_bytes = progress.total_bytes]_vars

C30_Witness ==
    /\ pc = "done"
    /\ progress.status = "Download failed"
    /\ reader = "done"
    /\ lines_read > 0
    /\ progress.completed_bytes > 0
    /\ returncode # 0

\* C36: every progress edit of the bound message that the tracker scheduled
\* is issued before download() returns: no step issues one once download()
\* has returned.
C36_NoEditAfterReturn ==
    [][edits_made' > edits_made => pc # "done"]_vars

\* C31: a call of split_video_by_size made because a part was too large
\* splits into strictly more segments than the call before it.
C31_RetryUsesMoreSegments ==
    [][(split_pc = "called" /\ split_calls >= 1 /\ split_pc' = "gather")
       => num_segments' > num_segments]_vars

\* C32: when split_video_by_size has returned, every path it returned names a
\* file on disk of at most max_size_bytes.
C32_ReturnedPartsWithinLimit ==
    split_pc = "returned" =>
        \A i \in 1..Len(output_files) :
            output_files[i].file # Missing /\ output_files[i].file <= MaxSizeBytes

\* split_video_by_size has returned several parts from a retry.
C32_Witness ==
    /\ split_pc = "returned"
    /\ split_calls >= 2
    /\ Len(output_files) >= 2

\* C33: a progress call is suppressed by the throttle only because of an
\* update of its own transfer.
C33_ThrottleOwnTransferOnly ==
    throttled.job # 0 => throttled.by = throttled.job

\* C34: when read_stderr has forwarded a size= or bytes= reading that is the
\* largest so far, the bytes it has credited to the tracker add up to that
\* reading, whatever the time= branch credited before (no callback, so that no
\* update is lost to an exception; the line carries no time= estimate of its
\* own).
C34_ByteReadingNotCountedTwice ==
    [][(/\ Len(forwards') = Len(forwards) + 1
        /\ forwards'[Len(forwards')].forwarded
        /\ forwards'[Len(forwards')].reading > forwards'[Len(forwards')].prev_max
        /\ estimated_progress' = NoEstimate
        /\ ~callback)
       => progress'.completed_bytes = forwards'[Len(forwards')].reading]_vars

\* C35: the ETA of every report handed to an observer is non-negative.
C35_EtaNotNegative ==
    \A i \in 1..Len(reports) : reports[i].eta >= 0

\* C37: no two jobs run the external tool on one output path at the same
\* time, and no job removes the output file of a job that is still producing
\* or uploading it.
C37_OutputPathsNotShared ==
    /\ [](\A j, k \in 1..MaxJobs :
             (j # k /\ jobs[j].pc = "tool" /\ jobs[k].pc = "tool")
             => jobs[j].path # jobs[k].path)
    /\ [][\A j, k \in 1..MaxJobs :
             (j # k /\ jobs[j].pc = "upload" /\ jobs'[j].pc = "cleaned"
              /\ jobs[k].pc \in {"tool", "upload"})
             => jobs[j].path # jobs[k].path]_vars

\* C38: once split_video_by_size has raised because a segment split failed,
\* no output part is on disk.
C38_NoPartLeftAfterFailure ==
    split_pc = "raised" =>
        \A i \in 1..Len(output_files) : output_files[i].file = Missing

\* C39: every evaluation that is running is the task TASKS maps the id to,
\* and TASKS has no entry for the id once no evaluation is running or
\* waiting to report its cancellation.
C39_RunningTaskRegistered ==
    /\ \A h \in 1..MaxEvals : evals[h] = "running" => TASKS = h
    /\ (\A h \in 1..MaxEvals : evals[h] \in {"idle", "done"}) => TASKS = None

====
